---- MODULE Spec2Model ----
(***************************************************************************)
(* Model of appointments.py: the incremental appointment dump kept as a    *)
(* CSV file on Drive.  The Drive dump file, the ServiceTitan responses and *)
(* the locals of main() are the state; one action per step of main().      *)
(***************************************************************************)
EXTENDS Integers, Sequences, FiniteSets, TLC

\* ------------------------------------------------------------------ bounds
MaxId    == 2   \* appointment ids are 1..MaxId
MaxRows  == 2   \* rows of a job table
MaxBatch == 2   \* batch sizes 1..MaxBatch
MaxDump  == 1   \* rows of the dump file before the first run

Procs == {1, 2}
Ids   == 1..MaxId

\* A missing cell of a job table (NaN); dropped by dropna().
Null == 0
\* A missing field of a DataFrame row; written as an empty CSV field.
NaN == ""

\* ----------------------------------------------------------------- helpers
Range(s) == {s[i] : i \in 1..Len(s)}

IndexOf(s, v) == CHOOSE i \in 1..Len(s) : s[i] = v

RECURSIVE Flatten(_)
Flatten(ss) == IF ss = <<>> THEN <<>> ELSE Head(ss) \o Flatten(Tail(ss))

IsInjective(s) == \A i, j \in 1..Len(s) : s[i] = s[j] => i = j

\* s is a subsequence of t (order kept, elements possibly skipped)
RECURSIVE IsSubSeq(_, _)
IsSubSeq(s, t) ==
    IF s = <<>> THEN TRUE
    ELSE IF t = <<>> THEN FALSE
    ELSE IF Head(s) = Head(t) THEN IsSubSeq(Tail(s), Tail(t))
    ELSE IsSubSeq(s, Tail(t))

IsPrefix(s, t) == Len(s) <= Len(t) /\ SubSeq(t, 1, Len(s)) = s

\* -------------------------------------------------- DataFrames and CSV text
\* A DataFrame: its column names in order and its rows (column -> value).
EmptyDF == [columns |-> <<>>, rows |-> <<>>]

\* pd.DataFrame(batch): the columns are the keys of the records.
DataFrame(recs) ==
    IF recs = <<>> THEN EmptyDF
    ELSE [columns |-> <<"id", "status">>, rows |-> recs]

\* DataFrame.empty: no rows or no columns.
IsEmpty(df) == df.rows = <<>> \/ df.columns = <<>>

\* The decimal text of the ids.
Decimal == [i \in Ids |-> ToString(i)]

\* to_csv formats a numeric column in decimal and leaves text as it is.
FormatCell(c, v) == IF c = "id" THEN Decimal[v] ELSE v

\* read_csv infers the numeric column back from its decimal text.
ParseCell(c, s) == IF c = "id" THEN CHOOSE i \in Ids : Decimal[i] = s ELSE s

\* DataFrame.to_csv(buf, index=False): the header line, then a line per row.
\* A frame without columns is written as one blank line.
to_csv(df) ==
    IF df.columns = <<>> THEN << <<>> >>
    ELSE << df.columns >> \o
         [i \in 1..Len(df.rows) |->
            [j \in 1..Len(df.columns) |->
               FormatCell(df.columns[j], df.rows[i][df.columns[j]])]]

\* pd.read_csv, with EmptyDataError (no bytes, or no columns to parse)
\* turned into an empty DataFrame.
read_csv(text) ==
    IF text = <<>> \/ text[1] = <<>> THEN EmptyDF
    ELSE [columns |-> text[1],
          rows |-> [i \in 1..(Len(text) - 1) |->
                      [c \in Range(text[1]) |->
                         ParseCell(c, text[i + 1][IndexOf(text[1], c)])]]]

\* (faulty variant of concat) the new rows put before the prior ones
concat_new_first(prior, df) ==
    LET cols == prior.columns \o
                SelectSeq(df.columns, LAMBDA c : c \notin Range(prior.columns))
        fill(r) == [c \in Range(cols) |-> IF c \in DOMAIN r THEN r[c] ELSE NaN]
        all  == df.rows \o prior.rows
    IN [columns |-> cols, rows |-> [i \in 1..Len(all) |-> fill(all[i])]]

\* pd.concat([prior, df], ignore_index=True): prior rows first, the union of
\* the columns, a value missing from a row filled with NaN.
concat(prior, df) ==
    LET cols == prior.columns \o
                SelectSeq(df.columns, LAMBDA c : c \notin Range(prior.columns))
        fill(r) == [c \in Range(cols) |-> IF c \in DOMAIN r THEN r[c] ELSE NaN]
        all  == prior.rows \o df.rows
    IN [columns |-> cols, rows |-> [i \in 1..Len(all) |-> fill(all[i])]]

\* (faulty variant of BootstrapContent) the dump created with no bytes
EmptyContent == <<>>

\* the content main() uploads when it creates the dump file: b"id\n"
BootstrapContent == << <<"id">> >>

\* The id column of a DataFrame, as integers.
IdColumn(df) == [i \in 1..Len(df.rows) |-> df.rows[i].id]

\* ------------------------------------------------------------- job tables
\* str.lower() on the column names that occur
Lower(c) ==
    CASE c = "FirstAppointmentID" -> "firstappointmentid"
      [] c = "LastAppointmentID"  -> "lastappointmentid"
      [] c = "JobNumber"          -> "jobnumber"
      [] OTHER                    -> c

JobColumnLayouts ==
    { <<"JobNumber">>,
      <<"LastAppointmentID">>,
      <<"FirstAppointmentID", "lastappointmentid">> }

Cells == Ids \cup {Null}

\* job_data.csv as read: column names and, per row, one cell per column
JobTables ==
    UNION { { [columns |-> L, rows |-> r] :
                r \in UNION { [1..n -> [1..Len(L) -> Cells]] : n \in 0..MaxRows } } :
            L \in JobColumnLayouts }

\* id_cols = [c for c in job_df.columns if c.lower() in {...}], as indices
id_cols(job) ==
    SelectSeq([k \in 1..Len(job.columns) |-> k],
              LAMBDA k : Lower(job.columns[k]) \in
                           {"firstappointmentid", "lastappointmentid"})

\* (faulty variant of StackColumns) the reference cells taken row after row
StackRows(job) ==
    LET cols == id_cols(job)
    IN Flatten([i \in 1..Len(job.rows) |->
                  [k \in 1..Len(cols) |-> job.rows[i][cols[k]]]])

\* pd.concat([job_df[c] for c in id_cols]): whole columns, one after another
StackColumns(job) ==
    LET cols == id_cols(job)
    IN Flatten([k \in 1..Len(cols) |->
                  [i \in 1..Len(job.rows) |-> job.rows[i][cols[k]]]])

\* Series.dropna()
dropna(s) == SelectSeq(s, LAMBDA v : v # Null)

\* (faulty variant of unique) repetitions kept
keep_all(s) == s

\* Series.unique(): first occurrences, in order of appearance
RECURSIVE unique(_)
unique(s) ==
    IF s = <<>> THEN <<>>
    ELSE LET init == unique(SubSeq(s, 1, Len(s) - 1))
             last == s[Len(s)]
         IN IF last \in Range(init) THEN init ELSE Append(init, last)

\* done_ids = set(dump_df["id"].astype(int)) if not dump_df.empty else set()
done_ids(df) == IF IsEmpty(df) THEN {} ELSE Range(IdColumn(df))

\* pd.concat(...).dropna().astype(int).unique().tolist(): the stacked
\* reference columns without missing cells and without repetitions
StackedIds(job) == unique(dropna(StackColumns(job)))

\* (faulty variant of Pending) the ids already in the dump not removed
PendingUnfiltered(ids, done) == ids

\* todo_ids = [i for i in todo_ids if i not in done_ids]
Pending(ids, done) == SelectSeq(ids, LAMBDA i : i \notin done)

\* The cells of the reference columns read row by row, left to right:
\* cell n is in row (n-1) div C + 1, reference column (n-1) mod C + 1.
RowScan(job) ==
    LET cols == id_cols(job)
        C == Len(cols)
    IN [n \in 1..(Len(job.rows) * C) |->
          job.rows[((n - 1) \div C) + 1][cols[((n - 1) % C) + 1]]]

\* The same cells read column by column, each column top to bottom:
\* cell n is in reference column (n-1) div R + 1, row (n-1) mod R + 1.
ColumnScan(job) ==
    LET cols == id_cols(job)
        R == Len(job.rows)
    IN [n \in 1..(R * Len(cols)) |->
          job.rows[((n - 1) % R) + 1][cols[((n - 1) \div R) + 1]]]

\* The ids of a scan, each placed by where it is first met.
FirstSeen(scan) ==
    LET vals == Range(scan) \ {Null}
        first(v) == CHOOSE i \in 1..Len(scan) :
                      scan[i] = v /\ \A j \in 1..(i - 1) : scan[j] # v
    IN [k \in 1..Cardinality(vals) |->
          CHOOSE v \in vals :
            Cardinality({w \in vals : first(w) < first(v)}) = k - 1]

\* What main() takes from a job table: whether it has a reference column
\* and the ids it stacks; by_row and by_col are the ids of the table in the
\* order a row-by-row and a column-by-column scan first meets them.
JobRead(job) ==
    [has_id_cols |-> id_cols(job) # <<>>,
     ids         |-> StackedIds(job),
     by_row      |-> FirstSeen(RowScan(job)),
     by_col      |-> FirstSeen(ColumnScan(job))]

\* Every job table, as main() takes it
JobReads == { JobRead(job) : job \in JobTables }


\* ----------------------------------------------------------- ServiceTitan
\* What the appointments endpoint may answer for id aid: 404, another
\* failure (a non-2xx status, a timeout), or a JSON object, which carries
\* no id, the id asked for, or another id (the one after aid, cyclically,
\* stands for any other).
Responses(aid) ==
    { [code |-> 404], [code |-> 500],
      [code |-> 200, body |-> [status |-> "Scheduled"]],
      [code |-> 200, body |-> [id |-> aid, status |-> "Scheduled"]],
      [code |-> 200, body |-> [id |-> (aid % MaxId) + 1, status |-> "Scheduled"]] }

\* dict.setdefault("id", aid)
setdefault_id(data, aid) ==
    IF "id" \in DOMAIN data THEN data ELSE [id |-> aid, status |-> data.status]

\* (faulty variant of fetch_appt) a 404 raised like any other failure
fetch_appt_404_raises(aid, resp) ==
    IF resp.code # 200
      THEN [raised |-> TRUE]
    ELSE [raised |-> FALSE, rec |-> setdefault_id(resp.body, aid)]

\* fetch_appt(aid, token): the record, or the exception raise_for_status
\* raises
fetch_appt(aid, resp) ==
    IF resp.code = 404
      THEN [raised |-> FALSE, rec |-> [id |-> aid, status |-> "NOT_FOUND"]]
    ELSE IF resp.code # 200
      THEN [raised |-> TRUE]
    ELSE [raised |-> FALSE, rec |-> setdefault_id(resp.body, aid)]

\* The outcome r of fetch_appt(aid, ...) is an exception or a record with
\* the id asked for.
CarriesId(r, aid) == IF r.raised THEN TRUE ELSE r.rec.id = aid

\* ------------------------------------------------------------------ state
VARIABLES
    BATCH_SIZE,    \* the batch size the script is configured with
    job_file,      \* job_data.csv: pinned to one table, or any at each read
    dump_exists,   \* appointments_dump.csv is in the Drive folder
    dump_csv,      \* its content, as lines of fields
    pc,            \* where each run of main() stands
    dump_df,       \* main(): the dump as read at the start of the run
    todo_ids,      \* main(): the ids to fetch
    idx,           \* main(): how many of todo_ids the loop has taken
    token,         \* main(): the tokens obtained so far (0: none)
    batch,         \* main(): the records fetched and not yet flushed
    count,         \* main(): successful fetches
    prior,         \* append_drive_csv: the table it read
    \* what the run did, recorded for the properties
    created,       \* this run created the dump file
    fetched,       \* the ids fetch_appt was called with, in order
    warned,        \* the ids logged by logging.warning, in order
    appends,       \* the sizes of the frames passed to append_drive_csv
    flushed,       \* the records of the appends whose upload completed
    uses,          \* successful fetches made with the current token
    refs,          \* the ids the job table of this run references
    row_order,     \* those ids not in the dump, in row-by-row scan order
    col_order,     \* the same ids, in column-by-column scan order
    answered404,   \* the ids the API answered 404 for
    carry,         \* the ids buffered and not flushed when the run before
                   \* this one was aborted
    rerun,         \* "clean", "raised": the run before this one completed
                   \* (without, with a failed fetch), "aborted": it was
                   \* aborted in its loop; and this run reads a job table
                   \* referencing the same ids; else "no"
    bootstrapped,  \* some run created the dump file
    faithful       \* every record fetched so far carries the id asked for

vars == << BATCH_SIZE, job_file, dump_exists, dump_csv, pc, dump_df, todo_ids, idx, token,
           batch, count, prior, created, fetched, warned, appends, flushed, uses,
           refs, row_order, col_order, answered404, carry, rerun, bootstrapped,
           faithful >>

store  == << dump_exists, dump_csv >>
locals == << dump_df, todo_ids, idx, token, batch, count, prior >>
hist   == << created, fetched, warned, appends, flushed, uses, refs, row_order,
            col_order, answered404, carry >>

Terminal == {"done", "uptodate", "exit_nojob", "exit_nocols", "aborted_start",
             "aborted"}

Statuses == {"Scheduled", "NOT_FOUND"}

\* The dump files a run may find: none, a file of no bytes, the header
\* alone, or rows left by earlier runs (no id twice).
InitialRows ==
    { r \in UNION { [1..n -> [id : Ids, status : Statuses]] : n \in 1..MaxDump } :
        IsInjective(IdColumn([rows |-> r])) }

InitialDumps ==
    { <<>>, BootstrapContent } \cup { to_csv(DataFrame(r)) : r \in InitialRows }

InitRun ==
    /\ BATCH_SIZE \in 1..MaxBatch
    /\ \/ dump_exists = FALSE /\ dump_csv = <<>>
       \/ dump_exists = TRUE /\ dump_csv \in InitialDumps
    /\ pc = [p \in Procs |-> "idle"]
    /\ dump_df = [p \in Procs |-> EmptyDF]
    /\ todo_ids = [p \in Procs |-> <<>>]
    /\ idx = [p \in Procs |-> 0]
    /\ token = [p \in Procs |-> 0]
    /\ batch = [p \in Procs |-> <<>>]
    /\ count = [p \in Procs |-> 0]
    /\ prior = [p \in Procs |-> EmptyDF]
    /\ created = [p \in Procs |-> FALSE]
    /\ fetched = [p \in Procs |-> <<>>]
    /\ warned = [p \in Procs |-> <<>>]
    /\ appends = [p \in Procs |-> <<>>]
    /\ flushed = [p \in Procs |-> <<>>]
    /\ uses = [p \in Procs |-> 0]
    /\ refs = [p \in Procs |-> {}]
    /\ row_order = [p \in Procs |-> <<>>]
    /\ col_order = [p \in Procs |-> <<>>]
    /\ answered404 = [p \in Procs |-> {}]
    /\ carry = [p \in Procs |-> {}]
    /\ rerun = [p \in Procs |-> "no"]
    /\ bootstrapped = FALSE
    /\ faithful = TRUE

\* The job file is whatever the folder holds when a run reads it.
Init == InitRun /\ job_file = [pinned |-> FALSE]

\* ---------------------------------------------------------------- actions
\* A new run of main() by p; how the run before it ended is kept in rerun
\* until the job table is read.  (Runs are followed up to the end of the
\* one in which a record carries a foreign id; after it every run could
\* add one more row of an id the dump has, without end.)
Start(p) ==
    /\ pc[p] \in Terminal \cup {"idle"}
    /\ faithful
    /\ pc' = [pc EXCEPT ![p] = "locate"]
    /\ rerun' = [rerun EXCEPT ![p] =
                   IF pc[p] = "aborted" THEN "aborted"
                   ELSE IF pc[p] \notin {"done", "uptodate"} THEN "no"
                   ELSE IF warned[p] # <<>> THEN "raised" ELSE "clean"]
    /\ carry' = [carry EXCEPT ![p] =
                   IF pc[p] = "aborted" THEN {batch[p][i].id : i \in 1..Len(batch[p])}
                   ELSE {}]
    /\ dump_df' = [dump_df EXCEPT ![p] = EmptyDF]
    /\ todo_ids' = [todo_ids EXCEPT ![p] = <<>>]
    /\ idx' = [idx EXCEPT ![p] = 0]
    /\ token' = [token EXCEPT ![p] = 0]
    /\ batch' = [batch EXCEPT ![p] = <<>>]
    /\ count' = [count EXCEPT ![p] = 0]
    /\ prior' = [prior EXCEPT ![p] = EmptyDF]
    /\ created' = [created EXCEPT ![p] = FALSE]
    /\ fetched' = [fetched EXCEPT ![p] = <<>>]
    /\ warned' = [warned EXCEPT ![p] = <<>>]
    /\ appends' = [appends EXCEPT ![p] = <<>>]
    /\ flushed' = [flushed EXCEPT ![p] = <<>>]
    /\ uses' = [uses EXCEPT ![p] = 0]
    /\ row_order' = [row_order EXCEPT ![p] = <<>>]
    /\ col_order' = [col_order EXCEPT ![p] = <<>>]
    /\ answered404' = [answered404 EXCEPT ![p] = {}]
    /\ refs' = [refs EXCEPT ![p] =
                  IF pc[p] \in {"done", "uptodate", "aborted"} THEN @ ELSE {}]
    /\ UNCHANGED << BATCH_SIZE, job_file, store, bootstrapped, faithful >>

\* main(), step 1: locate job_data.csv and the dump; leave when the job file
\* is not there; create the dump with its header when it is not there.
Locate(p) ==
    /\ pc[p] = "locate"
    /\ \E job_found \in BOOLEAN :
         IF ~job_found
           THEN /\ pc' = [pc EXCEPT ![p] = "exit_nojob"]
                /\ UNCHANGED << store, created, bootstrapped >>
         ELSE IF ~dump_exists
           THEN /\ dump_exists' = TRUE
                /\ dump_csv' = BootstrapContent
                /\ created' = [created EXCEPT ![p] = TRUE]
                /\ bootstrapped' = TRUE
                /\ pc' = [pc EXCEPT ![p] = "read"]
         ELSE /\ pc' = [pc EXCEPT ![p] = "read"]
              /\ UNCHANGED << store, created, bootstrapped >>
    /\ UNCHANGED << BATCH_SIZE, job_file, locals, fetched, warned, appends,
                    flushed, uses, refs, row_order, col_order, answered404,
                    carry, rerun, faithful >>

\* The job tables job_data.csv may hold when a run reads it: any table, or
\* the one table the folder keeps throughout.
JobReadsNow == IF job_file.pinned THEN {job_file.read} ELSE JobReads

\* main(), step 2: read both tables and compute todo_ids; leave when the
\* job table has no reference column or nothing is left to fetch.
ReadAndPlan(p) ==
    /\ pc[p] = "read"
    /\ \E df \in {read_csv(dump_csv)} : \E job_df \in JobReadsNow :
         LET todo == Pending(job_df.ids, done_ids(df))
         IN /\ dump_df' = [dump_df EXCEPT ![p] = df]
            /\ IF ~job_df.has_id_cols
                 THEN /\ pc' = [pc EXCEPT ![p] = "exit_nocols"]
                      /\ rerun' = [rerun EXCEPT ![p] = "no"]
                      /\ UNCHANGED << todo_ids, refs, row_order, col_order >>
                 ELSE /\ todo_ids' = [todo_ids EXCEPT ![p] = todo]
                      /\ refs' = [refs EXCEPT ![p] = Range(job_df.by_row)]
                      /\ rerun' = [rerun EXCEPT ![p] =
                            IF Range(job_df.by_row) = refs[p] THEN @ ELSE "no"]
                      /\ row_order' = [row_order EXCEPT ![p] =
                            SelectSeq(job_df.by_row,
                                      LAMBDA i : i \notin Range(IdColumn(df)))]
                      /\ col_order' = [col_order EXCEPT ![p] =
                            SelectSeq(job_df.by_col,
                                      LAMBDA i : i \notin Range(IdColumn(df)))]
                      /\ pc' = [pc EXCEPT ![p] =
                                  IF todo = <<>> THEN "uptodate" ELSE "auth"]
    /\ UNCHANGED << BATCH_SIZE, job_file, store, idx, token, batch, count, prior,
                    created, fetched, warned, appends, flushed, uses,
                    answered404, carry, bootstrapped, faithful >>

\* token = st_token(); batch = []; count = 0
\* (rerun and carry are about the plan just made and end here)
Auth(p) ==
    /\ pc[p] = "auth"
    /\ token' = [token EXCEPT ![p] = 1]
    /\ batch' = [batch EXCEPT ![p] = <<>>]
    /\ count' = [count EXCEPT ![p] = 0]
    /\ uses' = [uses EXCEPT ![p] = 0]
    /\ pc' = [pc EXCEPT ![p] = "loop"]
    /\ rerun' = [rerun EXCEPT ![p] = "no"]
    /\ carry' = [carry EXCEPT ![p] = {}]
    /\ UNCHANGED << BATCH_SIZE, job_file, store, dump_df, todo_ids, idx, prior,
                    created, fetched, warned, appends, flushed, refs, row_order,
                    col_order, answered404, bootstrapped, faithful >>

\* Where the for loop goes once it has taken i of the ids.
AfterIteration(p, i) == IF i = Len(todo_ids[p]) THEN "final_read" ELSE "loop"

\* (faulty variant of AfterException) the exception ends the loop
AfterExceptionBreak(p, i) == "final_read"

\* except Exception: logging.warning(...); continue
AfterException(p, i) == AfterIteration(p, i)

\* (faulty variant of FlushDue) no flush inside the loop
FlushNever(c) == FALSE

\* count % BATCH_SIZE == 0
FlushDue(c) == c % BATCH_SIZE = 0

\* One iteration of the for loop: fetch the next id; a record is buffered
\* and counted, an exception is logged and the id skipped.  (The endpoint
\* answers with an id other than the one asked for at most once.)
Fetch(p) ==
    /\ pc[p] = "loop"
    /\ LET aid == todo_ids[p][idx[p] + 1]
       IN \E resp \in Responses(aid) :
            LET r == fetch_appt(aid, resp)
            IN /\ IF faithful THEN TRUE ELSE CarriesId(r, aid)
               /\ faithful' = (faithful /\ CarriesId(r, aid))
               /\ fetched' = [fetched EXCEPT ![p] = Append(@, aid)]
               /\ idx' = [idx EXCEPT ![p] = @ + 1]
               /\ answered404' = [answered404 EXCEPT ![p] =
                                    IF resp.code = 404 THEN @ \cup {aid} ELSE @]
               /\ IF r.raised
                    THEN /\ warned' = [warned EXCEPT ![p] = Append(@, aid)]
                         /\ pc' = [pc EXCEPT ![p] = AfterException(p, idx[p] + 1)]
                         /\ UNCHANGED << batch, count, uses >>
                    ELSE /\ batch' = [batch EXCEPT ![p] = Append(@, r.rec)]
                         /\ count' = [count EXCEPT ![p] = @ + 1]
                         /\ uses' = [uses EXCEPT ![p] = @ + 1]
                         /\ pc' = [pc EXCEPT ![p] =
                                     IF FlushDue(count[p] + 1) THEN "flush_read"
                                     ELSE AfterIteration(p, idx[p] + 1)]
                         /\ UNCHANGED warned
    /\ UNCHANGED << BATCH_SIZE, job_file, store, dump_df, todo_ids, token, prior,
                    created, appends, flushed, refs, row_order, col_order, carry,
                    rerun, bootstrapped >>

\* append_drive_csv, first half: prior = read_drive_csv(svc, fid)
AppendRead(p) ==
    /\ pc[p] \in {"flush_read", "final_read"}
    /\ prior' = [prior EXCEPT ![p] = read_csv(dump_csv)]
    /\ appends' = [appends EXCEPT ![p] = Append(@, Len(batch[p]))]
    /\ pc' = [pc EXCEPT ![p] =
                IF pc[p] = "flush_read" THEN "flush_write" ELSE "final_write"]
    /\ UNCHANGED << BATCH_SIZE, job_file, store, dump_df, todo_ids, idx, token,
                    batch, count, created, fetched, warned, flushed, uses, refs,
                    row_order, col_order, answered404, carry, rerun,
                    bootstrapped, faithful >>

\* (faulty variant of UploadBase) the file read again at the moment of the upload
UploadBaseNow(p) == read_csv(dump_csv)

\* The table the upload of append_drive_csv is built on.
UploadBase(p) == prior[p]

\* append_drive_csv, second half: the whole file is replaced by prior
\* followed by the new frame.
AppendWrite(p) ==
    /\ pc[p] \in {"flush_write", "final_write"}
    /\ dump_csv' = to_csv(concat(UploadBase(p), DataFrame(batch[p])))
    /\ flushed' = [flushed EXCEPT ![p] = @ \o batch[p]]
    /\ prior' = [prior EXCEPT ![p] = EmptyDF]
    /\ pc' = [pc EXCEPT ![p] = IF pc[p] = "flush_write" THEN "clear" ELSE "done"]
    /\ UNCHANGED << BATCH_SIZE, job_file, dump_exists, dump_df, todo_ids, idx,
                    token, batch, count, created, fetched, warned, appends, uses,
                    refs, row_order, col_order, answered404, carry, rerun,
                    bootstrapped, faithful >>

\* (faulty variant of Clear) the buffer kept after a flush
ClearForgotten(p) ==
    /\ pc[p] = "clear"
    /\ pc' = [pc EXCEPT ![p] = "reauth"]
    /\ UNCHANGED << BATCH_SIZE, job_file, store, locals, hist, rerun, bootstrapped, faithful >>

\* batch.clear()
Clear(p) ==
    /\ pc[p] = "clear"
    /\ batch' = [batch EXCEPT ![p] = <<>>]
    /\ pc' = [pc EXCEPT ![p] = "reauth"]
    /\ UNCHANGED << BATCH_SIZE, job_file, store, dump_df, todo_ids, idx, token, count, prior,
                    hist, rerun, bootstrapped, faithful >>

\* token = st_token(), after a flush
Reauth(p) ==
    /\ pc[p] = "reauth"
    /\ token' = [token EXCEPT ![p] = @ + 1]
    /\ uses' = [uses EXCEPT ![p] = 0]
    /\ pc' = [pc EXCEPT ![p] = AfterIteration(p, idx[p])]
    /\ UNCHANGED << BATCH_SIZE, job_file, store, dump_df, todo_ids, idx, batch,
                    count, prior, created, fetched, warned, appends, flushed,
                    refs, row_order, col_order, answered404, carry, rerun,
                    bootstrapped, faithful >>

\* A Drive call fails (transport, authorization): nothing catches it.
DriveError(p) ==
    /\ pc[p] \in {"locate", "read", "flush_read", "flush_write",
                  "final_read", "final_write"}
    /\ pc' = [pc EXCEPT ![p] =
                IF pc[p] \in {"locate", "read"} THEN "aborted_start" ELSE "aborted"]
    /\ prior' = [prior EXCEPT ![p] = EmptyDF]
    /\ UNCHANGED << BATCH_SIZE, job_file, store, dump_df, todo_ids, idx, token, batch, count,
                    hist, rerun, bootstrapped, faithful >>

\* st_token() fails: raise_for_status propagates.
AuthError(p) ==
    /\ pc[p] \in {"auth", "reauth"}
    /\ pc' = [pc EXCEPT ![p] = "aborted"]
    /\ UNCHANGED << BATCH_SIZE, job_file, store, locals, hist, rerun, bootstrapped, faithful >>

Step(p) ==
    \/ Locate(p)
    \/ ReadAndPlan(p)
    \/ Auth(p)
    \/ Fetch(p)
    \/ AppendRead(p)
    \/ AppendWrite(p)
    \/ Clear(p)
    \/ Reauth(p)
    \/ DriveError(p)
    \/ AuthError(p)

\* One run at a time: the runs of a single writer, one after another.
Next == Start(1) \/ Step(1)

Spec == Init /\ [][Next]_vars

\* Two writers, each running main() once, their steps interleaved, on a
\* dump file that is already there and the same job table.
SharedJob ==
    [columns |-> <<"FirstAppointmentID", "lastappointmentid">>,
     rows |-> << <<1, 2>> >>]

InitConc ==
    /\ InitRun
    /\ dump_exists /\ dump_csv = BootstrapContent
    /\ job_file = [pinned |-> TRUE, read |-> JobRead(SharedJob)]

StartOnce(p) == pc[p] = "idle" /\ Start(p)

NextConc == \E p \in Procs : StartOnce(p) \/ Step(p)

SpecConc == InitConc /\ [][NextConc]_vars

\* ------------------------------------------------------------- properties
\* The dump file as a table, and its rows.
DumpDF == read_csv(dump_csv)
DumpRows == DumpDF.rows

IdsOf(recs) == [i \in 1..Len(recs) |-> recs[i].id]

\* The run of p has read the tables and computed todo_ids.
Planned(p) ==
    pc[p] \in {"uptodate", "auth", "loop", "flush_read", "flush_write", "clear",
               "reauth", "final_read", "final_write", "done", "aborted"}

\* The rows the dump has beyond those the run of p read at its start.
Added(p) == SubSeq(DumpRows, Len(dump_df[p].rows) + 1, Len(DumpRows))

\* The records p has fetched and no upload carries yet (after an upload
\* the buffer still holds the records until it is cleared).
Unflushed(p) == IF pc[p] \in {"clear", "done"} THEN <<>> ELSE batch[p]

\* C1 as stated: whenever a run completed, whatever its fetches did, and
\* the next run reads a job table referencing the same ids, that run
\* computes an empty todo_ids, fetches nothing and adds no row.
C1_SecondRunIdle ==
    \A p \in Procs :
      (rerun[p] \in {"clean", "raised"} /\ pc[p] \in {"auth", "uptodate"}) =>
        /\ todo_ids[p] = <<>>
        /\ pc[p] = "uptodate"
        /\ fetched[p] = <<>>
        /\ DumpRows = dump_df[p].rows

\* C1 amended: when a run completed, none of its fetches raised (a 404
\* is a fetched record) and every record carried the id asked for, the
\* next run on the same job table computes an empty todo_ids, returns
\* without a fetch or an append and leaves the rows of the dump as they
\* were.
C1_SecondRunIdleAfterCleanRun ==
    \A p \in Procs :
      (rerun[p] = "clean" /\ faithful /\ pc[p] \in {"auth", "uptodate"}) =>
        /\ todo_ids[p] = <<>>
        /\ pc[p] = "uptodate"
        /\ fetched[p] = <<>>
        /\ appends[p] = <<>>
        /\ DumpRows = dump_df[p].rows

\* A second run finds nothing to do on a dump that runs of the script
\* created and filled with two ids.
C1_Witness ==
    /\ bootstrapped /\ faithful
    /\ rerun[1] = "clean" /\ pc[1] = "uptodate"
    /\ Cardinality(refs[1]) >= 2 /\ Len(DumpRows) >= 2

\* C2 as stated: a completed run in which no fetch failed, with N ids to
\* fetch, calls append_drive_csv ceil(N/B) times, every call but the last
\* with B records, the last with N - B*(ceil(N/B) - 1).
C2_CeilAppends ==
    \A p \in Procs :
      (pc[p] = "done" /\ warned[p] = <<>>) =>
        LET N == Len(todo_ids[p])
            K == (N + BATCH_SIZE - 1) \div BATCH_SIZE
        IN /\ Len(appends[p]) = K
           /\ \A i \in 1..(K - 1) : appends[p][i] = BATCH_SIZE
           /\ appends[p][K] = N - BATCH_SIZE * (K - 1)

\* C2 amended: such a run calls append_drive_csv floor(N/B) + 1 times, the
\* first floor(N/B) calls with B records each and the final one with
\* N mod B records, which is none when N is a multiple of B; the calls
\* that carry records are ceil(N/B).
C2_FloorPlusOneAppends ==
    \A p \in Procs :
      (pc[p] = "done" /\ warned[p] = <<>>) =>
        LET N == Len(todo_ids[p])
            Q == N \div BATCH_SIZE
        IN /\ N >= 1
           /\ Len(appends[p]) = Q + 1
           /\ \A i \in 1..Q : appends[p][i] = BATCH_SIZE
           /\ appends[p][Q + 1] = N % BATCH_SIZE
           /\ Cardinality({i \in 1..(Q + 1) : appends[p][i] > 0})
                = (N + BATCH_SIZE - 1) \div BATCH_SIZE

\* Two ids, batch size two: one append of two records, then an empty one.
C2_Witness ==
    /\ pc[1] = "done" /\ warned[1] = <<>>
    /\ BATCH_SIZE = 2 /\ Len(todo_ids[1]) = 2
    /\ appends[1] = <<2, 0>>

\* C3 as stated: the rows a run adds to the dump (records carrying the
\* ids asked for) are in the order in which a row-by-row, left-to-right
\* scan of the reference columns first meets their ids (ids of the dump
\* left out), all of them when no fetch failed.
C3_RowByRowOrder ==
    \A p \in Procs :
      (Planned(p) /\ faithful) =>
        /\ IsSubSeq(IdsOf(Added(p)), row_order[p])
        /\ (pc[p] = "done" /\ warned[p] = <<>>) => IdsOf(Added(p)) = row_order[p]

\* C3 amended: the rows a run adds (records carrying the ids asked for)
\* are in the order in which a scan of the reference columns one whole
\* column after the other, each top to bottom, first meets their ids,
\* with duplicates and ids of the dump left out; all of them when no
\* fetch failed.  Whatever ids the records carry, the ids are fetched in
\* that order.
C3_ColumnByColumnOrder ==
    \A p \in Procs :
      Planned(p) =>
        /\ IsPrefix(fetched[p], col_order[p])
        /\ todo_ids[p] = col_order[p]
        /\ faithful =>
             /\ IsSubSeq(IdsOf(Added(p)), col_order[p])
             /\ (pc[p] = "done" /\ warned[p] = <<>>) =>
                  IdsOf(Added(p)) = col_order[p]

\* A table whose two scans differ: the rows were added in column order.
C3_Witness ==
    /\ pc[1] = "done" /\ faithful
    /\ IdsOf(Added(1)) = <<1, 2>>
    /\ row_order[1] = <<2, 1>>

\* C4: an id whose fetch raised is logged and skipped, no id is fetched
\* twice, every success is counted, and the loop goes on to the last id;
\* a completed run has added one row per id whose fetch did not raise
\* (the rows of those ids, in order, when the records carry the ids asked
\* for), and count is the number of rows added.
C4_PartialFailure ==
    \A p \in Procs :
      /\ IsInjective(fetched[p])
      /\ IsSubSeq(warned[p], fetched[p])
      /\ faithful =>
           Range(warned[p]) \cap Range(IdsOf(flushed[p] \o Unflushed(p))) = {}
      /\ count[p] = Len(flushed[p]) + Len(Unflushed(p))
      /\ count[p] = Len(fetched[p]) - Len(warned[p])
      /\ pc[p] = "done" =>
           /\ fetched[p] = todo_ids[p]
           /\ Len(Added(p)) = Len(todo_ids[p]) - Len(warned[p])
           /\ faithful =>
                IdsOf(Added(p)) =
                  SelectSeq(todo_ids[p], LAMBDA i : i \notin Range(warned[p]))
           /\ count[p] = Len(Added(p))

\* The first of two ids failed: a warning for it, a row for the other.
C4_Witness ==
    /\ pc[1] = "done" /\ faithful
    /\ todo_ids[1] = <<1, 2>> /\ warned[1] = <<1>>
    /\ IdsOf(Added(1)) = <<2>> /\ count[1] = 1

\* C5: an id the API answered 404 for is not logged as a failure; its
\* record {id, status: NOT_FOUND} is counted, buffered and flushed with
\* the others, and when the run completes it is a row the run added.
C5_NotFoundRecorded ==
    \A p \in Procs :
      /\ count[p] = Len(flushed[p]) + Len(Unflushed(p))
      /\ \A i \in answered404[p] :
           /\ i \notin Range(warned[p])
           /\ [id |-> i, status |-> "NOT_FOUND"]
                \in Range(flushed[p] \o Unflushed(p))
           /\ pc[p] = "done" =>
                [id |-> i, status |-> "NOT_FOUND"] \in Range(Added(p))

C5_Witness ==
    /\ pc[1] = "done"
    /\ 1 \in answered404[1]
    /\ [id |-> 1, status |-> "NOT_FOUND"] \in Range(Added(1))
    /\ count[1] = 2

\* C6: the upload of append_drive_csv replaces the file by the table read
\* earlier followed by the batch, whatever the file holds by then (so a
\* row another run wrote in between is dropped).
C6_OverwriteFromEarlierRead ==
    [][\A p \in Procs :
         (pc[p] \in {"flush_write", "final_write"} /\ pc'[p] \in {"clear", "done"})
           => dump_csv' = to_csv(concat(prior[p], DataFrame(batch[p])))]_vars

\* Both runs completed, and a row one of them uploaded is not in the dump.
C6_LostUpdate ==
    /\ pc[1] = "done" /\ pc[2] = "done" /\ faithful
    /\ \E p \in Procs : \E i \in 1..Len(flushed[p]) :
         flushed[p][i].id \notin Range(IdColumn(DumpDF))

\* C7: with one run at a time, a dump that starts without two rows of the
\* same id and records that carry the ids asked for, no two rows of the
\* dump have the same id; no run fetches an id of the dump it read, nor
\* an id twice.
C7_UniqueIds ==
    /\ faithful => IsInjective(IdColumn(DumpDF))
    /\ \A p \in Procs :
         /\ IsInjective(fetched[p])
         /\ Planned(p) =>
              Range(fetched[p]) \cap Range(IdColumn(dump_df[p])) = {}

\* A run that read rows left by an earlier run and added another.
C7_Witness ==
    /\ bootstrapped /\ faithful
    /\ pc[1] = "done"
    /\ Len(dump_df[1].rows) >= 1 /\ Len(Added(1)) >= 1

\* C8: a run that finds the job file and no dump file creates the dump
\* with the header id alone before reading a table, computing todo_ids,
\* fetching or appending (a run that finds no job file creates nothing);
\* from then on the dump file exists and its table has an id column.
C8_Bootstrap ==
    /\ \A p \in Procs :
         /\ (created[p] /\ pc[p] = "read") =>
              /\ DumpDF = [columns |-> <<"id">>, rows |-> <<>>]
              /\ dump_df[p] = EmptyDF /\ todo_ids[p] = <<>>
              /\ fetched[p] = <<>> /\ appends[p] = <<>>
         /\ pc[p] = "exit_nojob" => ~created[p]
    /\ bootstrapped =>
         /\ dump_exists
         /\ "id" \in Range(DumpDF.columns)

\* A later run fetching on a dump an earlier run created and filled.
C8_Witness ==
    /\ bootstrapped /\ ~created[1]
    /\ pc[1] = "loop"
    /\ Len(dump_df[1].rows) >= 1

\* C9: a token is obtained before the first fetch; when the count of
\* successes reaches a multiple of B the buffer (B records) is flushed,
\* then emptied, then a new token obtained, before the next fetch; a
\* token serves at most B successes, the buffer holds at most B records,
\* and between iterations the buffer length is count mod B.
C9_FlushThenClearThenToken ==
    \A p \in Procs :
      LET B == BATCH_SIZE
      IN /\ fetched[p] # <<>> => token[p] >= 1
         /\ uses[p] <= B
         /\ Len(batch[p]) <= B
         /\ pc[p] \in {"loop", "final_read"} =>
              /\ Len(batch[p]) = count[p] % B
              /\ uses[p] = count[p] % B
              /\ token[p] = 1 + (count[p] \div B)
              /\ Len(flushed[p]) = B * (count[p] \div B)
         /\ pc[p] \in {"flush_read", "flush_write"} =>
              /\ Len(batch[p]) = B /\ count[p] % B = 0
              /\ token[p] = count[p] \div B
              /\ Len(flushed[p]) = count[p] - B
         /\ pc[p] = "clear" =>
              /\ Len(flushed[p]) = count[p] /\ Len(batch[p]) = B
              /\ token[p] = count[p] \div B
         /\ pc[p] = "reauth" =>
              /\ Len(flushed[p]) = count[p] /\ batch[p] = <<>>
              /\ token[p] = count[p] \div B

\* Batch size one, a failed fetch then a success: two attempts and one
\* success on the first token, the flush about to start.
C9_Witness ==
    /\ BATCH_SIZE = 1
    /\ pc[1] = "flush_read"
    /\ token[1] = 1 /\ uses[1] = 1
    /\ Len(fetched[1]) = 2 /\ Len(warned[1]) = 1

\* The state part of C10: the dump is the table read at the start of the
\* run followed by the records of the uploads completed so far, which
\* with the buffer are the successes in fetch order; the records buffered
\* when a run is aborted are not in the dump, and the next run has them
\* in todo_ids (those its job table references: all of them when it
\* references the same ids); ids are compared for records that carry the
\* ids asked for.
C10_State ==
    \A p \in Procs :
      /\ Planned(p) =>
           /\ DumpRows = dump_df[p].rows \o flushed[p]
           /\ Len(flushed[p] \o Unflushed(p)) = Len(fetched[p]) - Len(warned[p])
           /\ faithful =>
                IdsOf(flushed[p] \o Unflushed(p)) =
                  SelectSeq(fetched[p], LAMBDA i : i \notin Range(warned[p]))
           /\ (pc[p] = "aborted" /\ faithful) =>
                Range(IdsOf(batch[p])) \cap Range(IdColumn(DumpDF)) = {}
      /\ (pc[p] \in {"auth", "uptodate"} /\ faithful) =>
           /\ (carry[p] \cap refs[p]) \subseteq Range(todo_ids[p])
           /\ rerun[p] = "aborted" => carry[p] \subseteq Range(todo_ids[p])

====
